---- MODULE Spec2Model ----
(***************************************************************************)
(* A model of EarthquakeDetector (src/earthquake_detection.py).            *)
(*                                                                         *)
(* The state is the detector object: one sample buffer per seismograph,   *)
(* the list of confirmed peak indices, and the number of times the alert  *)
(* callback has been invoked.  new_samples is the only entry point; it    *)
(* stores the samples and runs check_for_quake.  Python exceptions are    *)
(* modelled as the outcome of the call: the assignments made before the   *)
(* raise are kept, the rest of the handler is skipped.                    *)
(*                                                                         *)
(* Samples are one-dimensional numpy arrays of integers, as the docstring *)
(* of new_samples says; they are modelled as sequences of integers.       *)
(***************************************************************************)
EXTENDS Integers, Sequences, FiniteSets, TLC

VARIABLES
    seismographs,             \* self.seismographs: one buffer per seismograph
    confirmed_peak_indices,   \* self.confirmed_peak_indices
    alerts,                   \* number of invocations of self.alert_callback
    last,                     \* the most recent call: its id, outcome, and what it ran
    empty_truth_raises,       \* numpy >= 2.2: bool() of an empty array raises
    pc,                       \* per producer: "idle", or "check" between store and check
    calc                      \* one evaluation of lines 57-58 and 79 on given inputs

vars ==
    <<seismographs, confirmed_peak_indices, alerts, last, empty_truth_raises, pc, calc>>

---------------------------------------------------------------------------
(* Bounds of the model *)

NumSeis == 2          \* seismograph_count given to the constructor
SampleRate == 1       \* sample_rate_hz given to the constructor
MaxLen == 3           \* longest samples array passed to new_samples
PulseHeight == 10     \* amplitude of a pulse sample; the baseline is 0
MaxAlerts == 3        \* cap on the alert counter

---------------------------------------------------------------------------
(* Construction *)

\* A buffer slot: None, or an ndarray holding `data`.
None == [set |-> FALSE, data |-> <<>>]

Arr(s) == [set |-> TRUE, data |-> s]

Channels == 0 .. (NumSeis - 1)

\* 30 * 24 * 60 * 60 * self.sample_rate
month_window_size == 30 * 24 * 60 * 60 * SampleRate

\* self.sample_rate * 60 * 60
hour == SampleRate * 60 * 60

---------------------------------------------------------------------------
(* Inputs of new_samples *)

\* n samples of baseline
Flat(n) == [i \in 1 .. n |-> 0]

\* n samples of baseline with one pulse sample at 0-based index p
Pulse(n, p) == [i \in 1 .. n |-> IF i = p + 1 THEN PulseHeight ELSE 0]

\* The arrays a caller passes: baseline of every length up to MaxLen (the
\* empty array included), a single pulse sample, and MaxLen samples with the
\* pulse at each index
SampleInputs ==
    {Flat(n) : n \in 0 .. MaxLen}
        \cup {Pulse(1, 0)}
        \cup {Pulse(MaxLen, p) : p \in 0 .. (MaxLen - 1)}

\* ids a caller may pass: the valid ones, -1 (which Python counts from the
\* end of the list) and the first id past the end
IdInputs == (0 - 1) .. NumSeis

---------------------------------------------------------------------------
(* Python and numpy semantics used by the handlers *)

Ok(v) == [exc |-> "none", val |-> v]

Raise(e) == [exc |-> e, val |-> 0]

\* len(self.seismographs): the list is built once, by __init__
seismograph_count == Cardinality(DOMAIN seismographs)

\* list[id]: a negative id counts from the end; out of range raises IndexError
ListIndex(id) ==
    IF id >= 0 /\ id < seismograph_count THEN Ok(id)
    ELSE IF id < 0 /\ id >= 0 - seismograph_count THEN Ok(id + seismograph_count)
    ELSE Raise("IndexError")

\* bool(x) for x None or an ndarray: None is false; an array of one element
\* has that element's truth; an array of two or more raises ValueError; an
\* empty array is false, or raises ValueError on numpy >= 2.2
Truth(buf, strict) ==
    IF ~buf.set THEN Ok(FALSE)
    ELSE IF Len(buf.data) = 0 THEN (IF strict THEN Raise("ValueError") ELSE Ok(FALSE))
    ELSE IF Len(buf.data) = 1 THEN Ok(buf.data[1] # 0)
    ELSE Raise("ValueError")

\* np.concatenate(a, b): the second positional argument is the axis, not an
\* array to append, so the call raises for every pair of arrays
Concatenate(a, b) == Raise("TypeError")

\* a[-n:] for an array a: the last n elements; a[-0:] is the whole array
LastSlice(a, n) ==
    IF n = 0 \/ n >= Len(a) THEN a
    ELSE SubSeq(a, Len(a) - n + 1, Len(a))

---------------------------------------------------------------------------
(* peak_detect *)

\* The ascending sequence of the elements of a finite set of integers
RECURSIVE SortedSeq(_)
SortedSeq(S) ==
    IF S = {} THEN <<>>
    ELSE LET m == CHOOSE x \in S : \A y \in S : x <= y
         IN  <<m>> \o SortedSeq(S \ {m})

\* signal.find_peaks_cwt(vector, widths): the 0-based positions of peaks, in
\* ascending order.  scipy starts its ridge lines at the strict relative
\* maxima of the rows of the wavelet transform, comparing each column with
\* its neighbours and an edge column with itself, so a one-column transform
\* has no maximum and the result is empty.  peak_detect calls it on vectors
\* of one sample only (dim == 1); the transform of such a vector is the
\* sample times a positive factor, which is what is compared here.
FindPeaksCwt(vector, widths) ==
    LET n == Len(vector)
        clip(i) == IF i < 1 THEN 1 ELSE IF i > n THEN n ELSE i
    IN  SortedSeq({i - 1 : i \in {j \in 1 .. n :
                        /\ vector[j] > vector[clip(j - 1)]
                        /\ vector[j] > vector[clip(j + 1)]}})

\* The selection with the last of the equal maxima taken, not the first
SelectMax_LastMatch(samples, peak_inds) ==
    LET peaks == [k \in 1 .. Len(peak_inds) |-> samples[peak_inds[k] + 1]]
    IN  IF Len(peaks) = 0 THEN Raise("ValueError")
        ELSE LET mx   == CHOOSE v \in {peaks[k] : k \in 1 .. Len(peaks)} :
                             \A k \in 1 .. Len(peaks) : peaks[k] <= v
                 lastk == CHOOSE k \in 1 .. Len(peaks) :
                             /\ peaks[k] = mx
                             /\ \A j \in (k + 1) .. Len(peaks) : peaks[j] # mx
             IN  Ok(peak_inds[lastk])

\* peaks = [samples[i] for i in peak_inds]
\* return peak_inds[peaks.index(max(peaks))]
\* max() of an empty list raises ValueError; list.index gives the first match
SelectMax(samples, peak_inds) ==
    LET peaks == [k \in 1 .. Len(peak_inds) |-> samples[peak_inds[k] + 1]]
    IN  IF Len(peaks) = 0 THEN Raise("ValueError")
        ELSE LET mx    == CHOOSE v \in {peaks[k] : k \in 1 .. Len(peaks)} :
                              \A k \in 1 .. Len(peaks) : peaks[k] <= v
                 first == CHOOSE k \in 1 .. Len(peaks) :
                              /\ peaks[k] = mx
                              /\ \A j \in 1 .. (k - 1) : peaks[j] # mx
             IN  Ok(peak_inds[first])

\* peak_detect on samples[i], an integer scalar: samples.shape is (), so
\* samples.shape[0] raises IndexError
PeakDetectScalar(x) == Raise("IndexError")

\* peak_detect on a one-dimensional array.  dim == 1 runs the peak search;
\* any other length recurses on each element in turn, and the first
\* recursive call raises; an empty array gives an empty peak_inds.
PeakDetect(samples) ==
    LET dim == Len(samples)
    IN  IF dim = 1 THEN SelectMax(samples, FindPeaksCwt(samples, hour))
        ELSE IF dim = 0 THEN SelectMax(samples, <<>>)
        ELSE PeakDetectScalar(samples[1])

---------------------------------------------------------------------------
(* is_peak and check_for_quake *)

\* is_peak as its docstring describes it, reduced to the alignment: true when
\* seis holds a sample at peak_index
IsPeak_HasSample(seis, peak_index) ==
    seis.set /\ peak_index >= 0 /\ peak_index < Len(seis.data)

\* is_peak(seis, peak_index): the body is `return False`
IsPeak(seis, peak_index) == FALSE

\* x in list
InList(x, l) == \E k \in 1 .. Len(l) : l[k] = x

\* The result of a check: the exception raised ("none" when it returns),
\* the ledger and alert count after it, and how many is_peak calls it made.
CheckResult(e, conf, al, q) ==
    [exc |-> e, confirmed |-> conf, alerts |-> al, queries |-> q]

\* check_for_quake as it would be with the two guards of the alert gone: the
\* peak search bypassed (the newest sample taken as the candidate) and any
\* channel that holds data counted as corroborating.
CheckForQuake_Unguarded(idx, seis, conf, al) ==
    LET samples    == LastSlice(seis[idx].data, month_window_size)
        peak_index == Len(samples) - 1
        true_peak  == \A k \in DOMAIN seis : seis[k].set
    IN  IF InList(peak_index, conf) THEN CheckResult("none", conf, al, 0)
        ELSE IF true_peak
             THEN CheckResult("none", Append(conf, peak_index), al + 1,
                              Cardinality(DOMAIN seis))
             ELSE CheckResult("none", conf, al, 1)

\* peak_index = len(samples) - self.month_window_size + reverse_peak_index,
\* with samples the window and reverse_peak_index what peak_detect returned
PeakIndex(samples, reverse_peak_index) ==
    Len(samples) - month_window_size + reverse_peak_index

\* check_for_quake(seismograph_id), with idx the list position that
\* seismograph_id resolves to.  The loop asks is_peak about every entry of
\* self.seismographs in order, the triggering one included, and stops at the
\* first that says no; alert_callback() runs before the append.
CheckForQuake(idx, seis, conf, al) ==
    LET samples == LastSlice(seis[idx].data, month_window_size)
        r       == PeakDetect(samples)
    IN  IF r.exc # "none" THEN CheckResult(r.exc, conf, al, 0)
        ELSE LET peak_index == PeakIndex(samples, r.val)
                 refusing   == {k \in DOMAIN seis : ~IsPeak(seis[k], peak_index)}
                 true_peak  == refusing = {}
                 queries    == IF true_peak THEN Cardinality(DOMAIN seis)
                               ELSE 1 + CHOOSE k \in refusing :
                                            \A j \in refusing : k <= j
             IN  IF InList(peak_index, conf) THEN CheckResult("none", conf, al, 0)
                 ELSE IF true_peak
                      THEN CheckResult("none", Append(conf, peak_index), al + 1, queries)
                      ELSE CheckResult("none", conf, al, queries)

---------------------------------------------------------------------------
(* new_samples *)

\* Lines 39-43: the truth test of the stored buffer, then the concatenate
\* or the first assignment.  Gives the exception raised and the buffers.
StoreSamples(seis, strict, id, samples) ==
    LET i == ListIndex(id)
    IN  IF i.exc # "none" THEN [exc |-> i.exc, seismographs |-> seis]
        ELSE LET t == Truth(seis[i.val], strict)
             IN  IF t.exc # "none" THEN [exc |-> t.exc, seismographs |-> seis]
                 ELSE IF t.val
                      THEN LET c == Concatenate(seis[i.val].data, samples)
                           IN  [exc |-> c.exc, seismographs |-> seis]
                      ELSE [exc |-> "none",
                            seismographs |-> [seis EXCEPT ![i.val] = Arr(samples)]]

\* The whole of new_samples on a detector state st: store, then
\* check_for_quake unless the store raised.
NewSamplesCall(st, id, samples) ==
    LET s == StoreSamples(st.seismographs, st.strict, id, samples)
    IN  IF s.exc # "none"
        THEN [st EXCEPT !.last = [id |-> id, outcome |-> s.exc,
                                  checked |-> FALSE, queries |-> 0]]
        ELSE LET c == CheckForQuake(ListIndex(id).val, s.seismographs,
                                    st.confirmed, st.alerts)
             IN  [seismographs |-> s.seismographs,
                  confirmed    |-> c.confirmed,
                  alerts       |-> c.alerts,
                  strict       |-> st.strict,
                  last         |-> [id |-> id,
                                    outcome |-> IF c.exc = "none" THEN "returned"
                                                ELSE c.exc,
                                    checked |-> TRUE, queries |-> c.queries]]

\* No evaluation in progress
NoCalc ==
    [samples |-> <<>>, peak_inds |-> <<>>, done |-> FALSE,
     result |-> Ok(0), peak_index |-> 0]

\* The detector state as a record
State ==
    [seismographs |-> seismographs, confirmed |-> confirmed_peak_indices,
     alerts |-> alerts, strict |-> empty_truth_raises, last |-> last]

---------------------------------------------------------------------------
(* The state machine: calls run one at a time *)

\* __init__
Init ==
    /\ seismographs = [c \in Channels |-> None]
    /\ confirmed_peak_indices = <<>>
    /\ alerts = 0
    /\ last = [id |-> 0, outcome |-> "init", checked |-> FALSE, queries |-> 0]
    /\ empty_truth_raises \in BOOLEAN
    /\ pc = [c \in Channels |-> "idle"]
    /\ calc = NoCalc

NewSamples(id, samples) ==
    /\ alerts < MaxAlerts
    /\ LET st == NewSamplesCall(State, id, samples)
       IN  /\ seismographs' = st.seismographs
           /\ confirmed_peak_indices' = st.confirmed
           /\ alerts' = st.alerts
           /\ last' = st.last
    /\ UNCHANGED <<empty_truth_raises, pc, calc>>

Next == \E id \in IdInputs, samples \in SampleInputs : NewSamples(id, samples)

Spec == Init /\ [][Next]_vars

---------------------------------------------------------------------------
(* The same state machine for every seismograph_count from 1 to NumSeis *)

\* __init__ with seismograph_count = n
InitCount(n) ==
    /\ seismographs = [c \in 0 .. (n - 1) |-> None]
    /\ confirmed_peak_indices = <<>>
    /\ alerts = 0
    /\ last = [id |-> 0, outcome |-> "init", checked |-> FALSE, queries |-> 0]
    /\ empty_truth_raises \in BOOLEAN
    /\ pc = [c \in 0 .. (n - 1) |-> "idle"]
    /\ calc = NoCalc

InitAnyCount == \E n \in 1 .. NumSeis : InitCount(n)

SpecAnyCount == InitAnyCount /\ [][Next]_vars

---------------------------------------------------------------------------
(* The state machine with one producer per seismograph.  Nothing in the   *)
(* class takes a lock, so a producer's call can be overtaken between its  *)
(* store (lines 39-43) and its check (line 45) by another producer's call. *)

\* Lines 39-43 of a call by producer c
ConcStore(c, samples) ==
    /\ pc[c] = "idle"
    /\ alerts < MaxAlerts
    /\ LET s == StoreSamples(seismographs, empty_truth_raises, c, samples)
       IN  /\ seismographs' = s.seismographs
           /\ pc' = [pc EXCEPT ![c] = IF s.exc = "none" THEN "check" ELSE "idle"]
           /\ last' = [id |-> c,
                       outcome |-> IF s.exc = "none" THEN "stored" ELSE s.exc,
                       checked |-> FALSE, queries |-> 0]
    /\ UNCHANGED <<confirmed_peak_indices, alerts, empty_truth_raises, calc>>

\* Line 45 of a call by producer c
ConcCheck(c) ==
    /\ pc[c] = "check"
    /\ LET r == CheckForQuake(c, seismographs, confirmed_peak_indices, alerts)
       IN  /\ confirmed_peak_indices' = r.confirmed
           /\ alerts' = r.alerts
           /\ last' = [id |-> c,
                       outcome |-> IF r.exc = "none" THEN "returned" ELSE r.exc,
                       checked |-> TRUE, queries |-> r.queries]
    /\ pc' = [pc EXCEPT ![c] = "idle"]
    /\ UNCHANGED <<seismographs, empty_truth_raises, calc>>

NextConc ==
    \/ \E c \in Channels, samples \in SampleInputs : ConcStore(c, samples)
    \/ \E c \in Channels : ConcCheck(c)

SpecConc == Init /\ [][NextConc]_vars

---------------------------------------------------------------------------
(* The peak selection and the index arithmetic on their own: the last two   *)
(* lines of peak_detect and line 79 of check_for_quake are applied once to  *)
(* a window and the peak positions found in it.                             *)

\* Windows of 1 to MaxLen samples, each baseline or pulse height
Windows == UNION {[1 .. n -> {0, PulseHeight}] : n \in 1 .. MaxLen}

\* What a peak search can return for a window: positions of the window, in
\* ascending order, possibly none
PeakIndsOf(samples) ==
    {SortedSeq(S) : S \in SUBSET (0 .. (Len(samples) - 1))}

InitPeak ==
    /\ seismographs = [c \in Channels |-> None]
    /\ confirmed_peak_indices = <<>>
    /\ alerts = 0
    /\ last = [id |-> 0, outcome |-> "init", checked |-> FALSE, queries |-> 0]
    /\ empty_truth_raises \in BOOLEAN
    /\ pc = [c \in Channels |-> "idle"]
    /\ \E s \in Windows :
           \E pi \in PeakIndsOf(s) :
               calc = [NoCalc EXCEPT !.samples = s, !.peak_inds = pi]

\* Lines 57-58 on (samples, peak_inds), then line 79 on what they return
SelectPeak ==
    /\ ~calc.done
    /\ LET r == SelectMax(calc.samples, calc.peak_inds)
       IN  calc' = [calc EXCEPT
                        !.done = TRUE,
                        !.result = r,
                        !.peak_index = IF r.exc = "none"
                                       THEN PeakIndex(calc.samples, r.val)
                                       ELSE 0]
    /\ UNCHANGED <<seismographs, confirmed_peak_indices, alerts, last,
                   empty_truth_raises, pc>>

NextPeak == SelectPeak

SpecPeak == InitPeak /\ [][NextPeak]_vars

---------------------------------------------------------------------------
(* Properties *)

AlignmentTolerance == 1   \* alignment_tolerance_samples of the specification

\* The samples a buffer holds, as a sequence (None holds none)
History(buf) == buf.data

IsFlat(s) == \A i \in 1 .. Len(s) : s[i] = 0

\* Every channel holds n samples of baseline with a pulse at index p
SharedPulse(n, p) == \A c \in Channels : seismographs[c] = Arr(Pulse(n, p))

Abs(x) == IF x < 0 THEN 0 - x ELSE x

\* C1: once every channel has ingested data with a pulse at the same index
\* on a flat baseline, the alert callback has been invoked exactly once and
\* the one confirmed index is within the alignment tolerance of the pulse.
C1_SharedPulseAlertsOnce ==
    \A n \in 2 .. MaxLen, p \in 0 .. (MaxLen - 1) :
        (p < n /\ SharedPulse(n, p)) =>
            /\ alerts = 1
            /\ Len(confirmed_peak_indices) = 1
            /\ Abs(confirmed_peak_indices[1] - p) <= AlignmentTolerance

\* Channel c holds a pulse and every other channel is flat or still empty
LonePulse(c) ==
    /\ seismographs[c].set
    /\ ~IsFlat(History(seismographs[c]))
    /\ \A o \in Channels \ {c} : IsFlat(History(seismographs[o]))

\* C2: while a pulse is present in one channel only and every other channel
\* is flat, the alert callback has not been invoked and no event is recorded.
C2_LonePulseNeverAlerts ==
    (\E c \in Channels : LonePulse(c)) =>
        /\ alerts = 0
        /\ confirmed_peak_indices = <<>>

\* C2 witness: one channel holds a pulse, every other channel has ingested
\* flat samples, and the last call ran its check.
C2_Witness ==
    /\ \E c \in Channels :
           /\ LonePulse(c)
           /\ \A o \in Channels \ {c} :
                  seismographs[o].set /\ Len(History(seismographs[o])) > 0
    /\ last.checked

\* C4: when the producers of all channels have each completed a call that
\* ingested the same pulse, in any interleaving of their stores and checks,
\* exactly one event is recorded and the alert callback ran exactly once.
C4_RaceConfirmsOnce ==
    \A n \in 2 .. MaxLen, p \in 0 .. (MaxLen - 1) :
        (/\ p < n
         /\ SharedPulse(n, p)
         /\ \A c \in Channels : pc[c] = "idle") =>
            /\ Len(confirmed_peak_indices) = 1
            /\ alerts = 1

\* C6: a call with an id outside 0 <= id < N fails and changes neither a
\* channel's history nor the confirmed events.
C6_InvalidIdRejected ==
    [][last'.id \notin Channels =>
          /\ last'.outcome # "returned"
          /\ \A c \in Channels :
                 History(seismographs'[c]) = History(seismographs[c])
          /\ confirmed_peak_indices' = confirmed_peak_indices]_vars

\* C7: a call on a valid channel with an empty sample array is rejected,
\* leaves the channel's history as it was, runs no check and alerts nobody.
C7_EmptyInputRejected ==
    [][\A c \in Channels :
          NewSamples(c, <<>>) =>
              /\ last'.outcome # "returned"
              /\ History(seismographs'[c]) = History(seismographs[c])
              /\ ~last'.checked
              /\ alerts' = alerts]_vars

\* C8: a call with non-empty samples on a valid channel, fresh or holding
\* samples already, extends that channel's history by the samples.  (A
\* channel holding an empty array got it from an empty append and is left
\* out.)
C8_AppendExtendsHistory ==
    [][\A c \in Channels, s \in SampleInputs \ {<<>>} :
          (/\ ~seismographs[c].set \/ Len(History(seismographs[c])) > 0
           /\ NewSamples(c, s)) =>
              History(seismographs'[c]) = History(seismographs[c]) \o s]_vars

\* C9: a check on a channel whose window holds a single sample returns
\* normally, asks no channel for corroboration, alerts nobody and records
\* nothing.
C9_ShortWindowTerminates ==
    (/\ last.checked
     /\ last.id \in Channels
     /\ Len(LastSlice(History(seismographs[last.id]), month_window_size)) = 1) =>
        /\ last.outcome = "returned"
        /\ last.queries = 0
        /\ alerts = 0
        /\ confirmed_peak_indices = <<>>

\* The elements of a list
Elements(l) == {l[k] : k \in 1 .. Len(l)}

\* C10: from any state in which two channels have not been fed yet, the
\* first calls on them leave the same confirmed events and the same number
\* of alerts whichever channel is fed first, whenever both orders leave the
\* same data in the channels.
C10_OrderIndependent ==
    \A c0, c1 \in Channels :
        (c0 < c1 /\ ~seismographs[c0].set /\ ~seismographs[c1].set) =>
            \A s0, s1 \in SampleInputs :
                LET ab == NewSamplesCall(NewSamplesCall(State, c0, s0), c1, s1)
                    ba == NewSamplesCall(NewSamplesCall(State, c1, s1), c0, s0)
                IN  ab.seismographs = ba.seismographs =>
                        /\ Elements(ab.confirmed) = Elements(ba.confirmed)
                        /\ ab.alerts = ba.alerts

\* C10 witness: every channel holds data and channel 0 was ingested last,
\* after the others, with its check run.
C10_Witness ==
    /\ \A c \in Channels : seismographs[c].set /\ Len(History(seismographs[c])) > 0
    /\ last.id = 0
    /\ last.checked

\* C11: in a detector with one seismograph, once the only channel has
\* ingested samples holding a pulse, the pulse is confirmed: one event is
\* recorded and the alert callback ran once.
C11_SingleChannelConfirms ==
    \A p \in 0 .. (MaxLen - 1) :
        (/\ seismograph_count = 1
         /\ seismographs[0] = Arr(Pulse(MaxLen, p))) =>
            /\ Len(confirmed_peak_indices) = 1
            /\ alerts = 1

HasHistory(buf) == buf.set /\ Len(History(buf)) > 0

C15_NoPeakIsNotAnError ==
    (/\ last.checked
     /\ last.id \in Channels
     /\ LET w == LastSlice(History(seismographs[last.id]), month_window_size)
        IN  Len(w) = 1 /\ FindPeaksCwt(w, hour) = <<>>) =>
        /\ last.outcome = "returned"
        /\ alerts = 0
        /\ confirmed_peak_indices = <<>>

ProbeIndices == (0 - 1) .. MaxLen

\* C19: is_peak is false for every channel and index, the alert callback has
\* never been invoked and no index is confirmed, for every seismograph count
\* from 1 up.
C19_StubNeverAlerts ==
    /\ \A c \in DOMAIN seismographs, i \in ProbeIndices :
           ~IsPeak(seismographs[c], i)
    /\ alerts = 0
    /\ confirmed_peak_indices = <<>>

\* C19 witness: every channel holds the same pulse and the last call ran
\* its check.
C19_Witness ==
    /\ \A c \in DOMAIN seismographs : seismographs[c] = Arr(Pulse(MaxLen, 1))
    /\ last.checked

====
